---- MODULE Spec2Model ----
(***************************************************************************)
(* Support portal back end: the ticket / attachment / comment persistence  *)
(* layer, the blob store and the request validation, as implemented by the *)
(* four variants of the API found in the repository:                       *)
(*   "app"        app.py         (FastAPI, repositories of app.py)         *)
(*   "app_new"    app_new.py     (FastAPI, repositories of shared.py)      *)
(*   "simple_app" simple_app.py  (FastAPI, no attachments)                 *)
(*   "chalice"    chalicelib/*   (repositories, storage and validation     *)
(*                                helpers; its handlers are not in src/)   *)
(* One behaviour is one deployment: a variant and a storage configuration  *)
(* are fixed in the initial state, as they are fixed at process start.     *)
(*                                                                         *)
(* Abstractions.  A uuid4 is a fresh number (nextId).  The wall clock is a *)
(* non-decreasing tick counter; a timestamp text is what isoformat() makes *)
(* of it and is compared as text, as SQLite compares a TEXT column.  A     *)
(* byte string is its length and a content number.  A base64 / data-URI    *)
(* text is whether it carries a prefix, whether it decodes, and the bytes  *)
(* it decodes to.  A file name or storage key is its list of "/"-separated *)
(* segments; the file system resolves ".." segments as the OS does.        *)
(***************************************************************************)
EXTENDS Integers, Sequences, FiniteSets, TLC

VARIABLES
    variant,        \* which implementation of the API this deployment runs
    remote,         \* S3 configured (shared.py) / not offline (chalicelib)
    tickets,        \* table tickets, rows in insertion order
    ticket_files,   \* table ticket_files
    comments,       \* table comments
    dirs,           \* directories of the local file system
    disk,           \* files of the local file system: set of [path, data]
    bucket,         \* objects of the S3 bucket: set of [key, data]
    clock,          \* the wall clock, in ticks
    nextId,         \* the next value uuid.uuid4() returns
    body,           \* the JSON body handed to parse_ticket_payload
    resp,           \* what the last operation was and what it returned
    store,          \* the database object: its configuration, the tables of
                    \* each database, the connections it has left open
                    \* (counted by the actions of SpecDatabase; the handler
                    \* actions work on the rows and leave it as it is)
    pending         \* a get_dashboard_metrics call between two of its queries

vars == <<variant, remote, tickets, ticket_files, comments, dirs, disk, bucket,
          clock, nextId, body, resp, store, pending>>

----------------------------------------------------------------------------
(* Bounds of the model                                                     *)

MaxTickets == 2
MaxMetricTickets == 4
MaxUploads == 2
MaxFaultIds == 4
MaxConns == 2
TicksPerSecond == 2

(* Program constants                                                       *)

MAX_FILE_SIZE == 10485760
DEFAULT_USER_ID == "demo-user"
SUPPORT_TEAM == "support-team"
APP_AUTO_REPLY == "Thank you for submitting your ticket. We've received your request and will respond within 24 hours."
CHALICE_AUTO_REPLY == "Thanks for opening this ticket - we will get back to you shortly."

----------------------------------------------------------------------------
(* Values                                                                  *)

None == [kind |-> "none"]

\* A JSON value or header value as Python sees it.
JAbsent == [t |-> "absent"]
JStr(s) == [t |-> "str", v |-> s]

\* A JSON string whose text is an attachment text (never empty).
JB64(p) == [t |-> "b64", p |-> p]

\* Python truthiness of such a value: None and "" are falsy.
Truthy(j) == j.t = "b64" \/ (j.t = "str" /\ j.v # "")

\* x or y
OrElse(j, d) == IF Truthy(j) THEN j.v ELSE d

Range(s) == {s[i] : i \in 1..Len(s)}


----------------------------------------------------------------------------
(* Time: datetime.now(timezone.utc).isoformat() and the TEXT comparison    *)

\* isoformat() of tick t: "<seconds>+00:00" when the microsecond part is 0,
\* "<seconds>.<micros>+00:00" otherwise.  The text is the list of its parts;
\* the separator is ranked as its character is: "+" (0x2B) before "." (0x2E).
isoformat(t) ==
    IF t % TicksPerSecond = 0
    THEN <<t \div TicksPerSecond, 0>>
    ELSE <<t \div TicksPerSecond, 1, t % TicksPerSecond>>

\* a < b as SQLite compares two TEXT values (memcmp, the shorter first).
RECURSIVE TextLT(_, _)
TextLT(a, b) ==
    IF b = <<>> THEN FALSE
    ELSE IF a = <<>> THEN TRUE
    ELSE IF Head(a) # Head(b) THEN Head(a) < Head(b)
    ELSE TextLT(Tail(a), Tail(b))

----------------------------------------------------------------------------
(* The local file system                                                   *)

\* A path segment: the client's text, or a uuid token joined to it.
Seg(name) == [tok |-> 0, name |-> name]
Tokened(id, name) == [tok |-> id, name |-> name]

\* ".." as the OS reads it; "<uuid>_.." is an ordinary name.
IsParent(s) == s.tok = 0 /\ s.name = ".."

Front(s) == SubSeq(s, 1, Len(s) - 1)
Last(s) == s[Len(s)]
Parent(p) == IF p = <<>> THEN <<>> ELSE Front(p)

\* Config.UPLOAD_FOLDER (default "uploads") and StorageClient._local_root,
\* relative to the back end's directory, which is the path <<>>.
UploadFolder == <<Seg("uploads")>>
LocalRoot == <<Seg("tmp"), Seg("s3")>>

IsFile(fs, p) == \E f \in fs : f.path = p

\* The directory that the segments lead to from cur: every component has to
\* exist, ".." steps to the parent.
RECURSIVE ResolveDir(_, _, _)
ResolveDir(ds, cur, segs) ==
    IF segs = <<>> THEN [ok |-> TRUE, path |-> cur]
    ELSE LET s == Head(segs)
             nxt == IF IsParent(s) THEN Parent(cur) ELSE Append(cur, s)
         IN  IF nxt \in ds THEN ResolveDir(ds, nxt, Tail(segs))
             ELSE [ok |-> FALSE, path |-> cur]

\* The file that base / key names, when its directory exists.
ResolveFile(ds, base, key) ==
    LET d == ResolveDir(ds, base, Front(key))
    IN  IF d.ok /\ ~IsParent(Last(key))
        THEN [ok |-> TRUE, path |-> Append(d.path, Last(key))]
        ELSE [ok |-> FALSE, path |-> <<>>]

\* A write that reports success and leaves the disk as it was.
WriteFileDropped(ds, fs, base, key, data) == [ok |-> TRUE, disk |-> fs]

\* open(base / key, 'wb').write(data): fails when the directory is missing
\* or the name is a directory, else creates or truncates the file.
WriteFile(ds, fs, base, key, data) ==
    LET f == ResolveFile(ds, base, key)
    IN  IF f.ok /\ f.path \notin ds
        THEN [ok |-> TRUE,
              disk |-> {g \in fs : g.path # f.path}
                         \cup {[path |-> f.path, data |-> data]}]
        ELSE [ok |-> FALSE, disk |-> fs]

\* Path.mkdir(parents=True, exist_ok=True) of cur / segs: creates every
\* missing component in order; fails on a component that is a file.
RECURSIVE MkdirP(_, _, _, _)
MkdirP(ds, fs, cur, segs) ==
    IF segs = <<>> THEN [ok |-> TRUE, dirs |-> ds]
    ELSE LET s == Head(segs)
             nxt == IF IsParent(s) THEN Parent(cur) ELSE Append(cur, s)
         IN  IF IsFile(fs, nxt) THEN [ok |-> FALSE, dirs |-> ds]
             ELSE MkdirP(ds \cup {nxt}, fs, nxt, Tail(segs))

\* What a reader finds at base / key.
ReadFile(ds, fs, base, key) ==
    LET f == ResolveFile(ds, base, key)
    IN  IF f.ok /\ IsFile(fs, f.path)
        THEN (CHOOSE g \in fs : g.path = f.path).data
        ELSE None

----------------------------------------------------------------------------
(* Blob store                                                              *)

Bytes(size, content) == [kind |-> "bytes", size |-> size, content |-> content]

\* An attachment text: an optional "data:...;base64," prefix, and base64
\* that decodes to bytes or fails to decode.
Payload(prefix, ok, bytes) == [prefix |-> prefix, ok |-> ok, bytes |-> bytes]

\* f"{uuid.uuid4()}_{file_name}"
UniqueFilename(id, file_name) ==
    <<Tokened(id, Head(file_name))>> \o Tail(file_name)

\* f"tickets/{uuid.uuid4()}-{filename}"
ChaliceKey(id, filename) ==
    <<Seg("tickets"), Tokened(id, Head(filename))>> \o Tail(filename)

Url(where, key) == [kind |-> "url", where |-> where, key |-> key]

PutObject(bk, key, data) ==
    {o \in bk : o.key # key} \cup {[key |-> key, data |-> data]}

\* The size check of StorageManager.upload_file.
TooLarge(file_size) == file_size > MAX_FILE_SIZE

\* StorageManager.upload_file.  st is the storage state, s3 whether the S3
\* client and bucket are configured, putFails whether put_object raises,
\* ioFails whether the local write raises OSError (disk full, permissions).
\* Every exception leaves as HTTPException(400).
upload_file(st, s3, file_data, file_name, putFails, ioFails) ==
    LET fail == [ok |-> FALSE, status |-> 400, url |-> None, size |-> 0,
                 dirs |-> st.dirs, disk |-> st.disk, bucket |-> st.bucket,
                 nextId |-> st.nextId]
    IN  IF ~file_data.ok THEN fail
        ELSE IF TooLarge(file_data.bytes.size) THEN fail
        ELSE
          LET unique_filename == UniqueFilename(st.nextId, file_name)
              ds == st.dirs \cup {UploadFolder}
              w == WriteFile(ds, st.disk, UploadFolder, unique_filename,
                             file_data.bytes)
          IN  IF s3 /\ ~putFails
              THEN [ok |-> TRUE, status |-> 200,
                    url |-> Url("s3", unique_filename),
                    size |-> file_data.bytes.size,
                    dirs |-> st.dirs, disk |-> st.disk,
                    bucket |-> PutObject(st.bucket, unique_filename,
                                         file_data.bytes),
                    nextId |-> st.nextId + 1]
              ELSE IF w.ok /\ ~ioFails
              THEN [ok |-> TRUE, status |-> 200,
                    url |-> Url("uploads", unique_filename),
                    size |-> file_data.bytes.size,
                    dirs |-> ds, disk |-> w.disk, bucket |-> st.bucket,
                    nextId |-> st.nextId + 1]
              ELSE [fail EXCEPT !.dirs = ds, !.nextId = st.nextId + 1]

\* StorageClient._store_locally; ioFails: write_bytes raises OSError.
StoreLocally(st, data, key, ioFails) ==
    LET m == MkdirP(st.dirs, st.disk, LocalRoot, Front(key))
        w == WriteFile(m.dirs, st.disk, LocalRoot, key, data)
    IN  IF m.ok /\ w.ok /\ ~ioFails
        THEN [ok |-> TRUE, status |-> 200, url |-> Url("mock-s3", key),
              size |-> data.size, dirs |-> m.dirs, disk |-> w.disk,
              bucket |-> st.bucket, nextId |-> st.nextId + 1]
        ELSE [ok |-> FALSE, status |-> 500, url |-> None, size |-> 0,
              dirs |-> m.dirs, disk |-> st.disk, bucket |-> st.bucket,
              nextId |-> st.nextId + 1]

\* StorageClient._store_in_s3
StoreInS3(st, data, key, putFails) ==
    IF putFails
    THEN [ok |-> FALSE, status |-> 500, url |-> None, size |-> 0,
          dirs |-> st.dirs, disk |-> st.disk, bucket |-> st.bucket,
          nextId |-> st.nextId + 1]
    ELSE [ok |-> TRUE, status |-> 200, url |-> Url("s3", key),
          size |-> data.size, dirs |-> st.dirs, disk |-> st.disk,
          bucket |-> PutObject(st.bucket, key, data),
          nextId |-> st.nextId + 1]

\* store_base64_blob that stores locally when the S3 put has failed.
store_base64_blob_fallback(st, online, blob, filename, putFails, ioFails) ==
    LET key == ChaliceKey(st.nextId, filename)
    IN  IF ~blob.ok
        THEN [ok |-> FALSE, status |-> 500, url |-> None, size |-> 0,
              dirs |-> st.dirs, disk |-> st.disk, bucket |-> st.bucket,
              nextId |-> st.nextId + 1]
        ELSE IF ~online \/ putFails
        THEN StoreLocally(st, blob.bytes, key, ioFails)
        ELSE StoreInS3(st, blob.bytes, key, putFails)

\* StorageClient.store_base64_blob.  online is `not self.offline`.
store_base64_blob(st, online, blob, filename, putFails, ioFails) ==
    LET key == ChaliceKey(st.nextId, filename)
    IN  IF ~blob.ok
        THEN [ok |-> FALSE, status |-> 500, url |-> None, size |-> 0,
              dirs |-> st.dirs, disk |-> st.disk, bucket |-> st.bucket,
              nextId |-> st.nextId + 1]
        ELSE IF ~online THEN StoreLocally(st, blob.bytes, key, ioFails)
        ELSE StoreInS3(st, blob.bytes, key, putFails)

\* The file a returned URL names: "/uploads/<name>" is served from the
\* upload folder, "http://localhost/mock-s3/<key>" from the local root.
UrlBase(url) == IF url.where = "uploads" THEN UploadFolder ELSE LocalRoot

ReadUrl(ds, fs, url) == ReadFile(ds, fs, UrlBase(url), url.key)


----------------------------------------------------------------------------
(* Ticket repository                                                       *)

Statuses == {"open", "in_progress", "resolved", "closed"}

\* InsertedRow with category and description bound to each other's column.
InsertedRowSwapped(ticket_id, subject, priority, category, description, user_id, created_at, attachment_url) ==
    [id |-> ticket_id, subject |-> subject, priority |-> priority,
     category |-> description, description |-> category, status |-> "open",
     user_id |-> user_id, created_at |-> created_at,
     attachment_url |-> attachment_url]

\* The row that create_ticket's INSERT statement writes.
InsertedRow(ticket_id, subject, priority, category, description, user_id, created_at, attachment_url) ==
    [id |-> ticket_id, subject |-> subject, priority |-> priority,
     category |-> category, description |-> description, status |-> "open",
     user_id |-> user_id, created_at |-> created_at,
     attachment_url |-> attachment_url]

\* The Ticket / TicketRecord that create_ticket constructs and returns.
ReturnedTicket(ticket_id, subject, priority, category, description, user_id, created_at, attachment_url) ==
    [id |-> ticket_id, subject |-> subject, priority |-> priority,
     category |-> category, description |-> description, status |-> "open",
     user_id |-> user_id, created_at |-> created_at,
     attachment_url |-> attachment_url]

\* The timestamp create_ticket takes: datetime.now(timezone.utc).isoformat()
Now(clk) == isoformat(clk)

\* fetchone(): the first row of a result, or None.
FetchOne(rows) == IF rows = <<>> THEN None ELSE Head(rows)

\* AppGetTicket without the owner filter.
AppGetTicketUnscoped(tk, ticket_id, user_id) ==
    LET Match(r) == r.id = ticket_id
    IN  FetchOne(SelectSeq(tk, Match))

\* TicketRepository.get_ticket of app.py: the owner filter is added only
\* for a truthy user_id.
AppGetTicket(tk, ticket_id, user_id) ==
    LET Match(r) == /\ r.id = ticket_id
                    /\ (Truthy(user_id) => r.user_id = user_id.v)
    IN  FetchOne(SelectSeq(tk, Match))

\* TicketRepository.get_ticket of shared.py: WHERE id = ?
SharedGetTicket(tk, ticket_id) ==
    LET Match(r) == r.id = ticket_id
    IN  FetchOne(SelectSeq(tk, Match))

\* TicketRepository.get_ticket of chalicelib/db.py and the query of
\* simple_app.py's handler: WHERE id = ? AND user_id = ?
ScopedGetTicket(tk, ticket_id, user_id) ==
    LET Match(r) == r.id = ticket_id /\ r.user_id = user_id
    IN  FetchOne(SelectSeq(tk, Match))

\* The orders in which ORDER BY created_at DESC may return rows: any
\* arrangement in which no row precedes one with a greater created_at (the
\* order of rows with equal keys is not specified by SQL).
Descending(rows) ==
    LET n == Len(rows)
        Perms == {p \in [1..n -> 1..n] : \A i, j \in 1..n : i # j => p[i] # p[j]}
    IN  {[i \in 1..n |-> rows[p[i]]] : p \in
           {q \in Perms : \A i, j \in 1..n :
              i < j => ~TextLT(rows[q[i]].created_at, rows[q[j]].created_at)}}

\* get_my_tickets with ORDER BY created_at ASC.
get_my_tickets_asc(tk, user_id) ==
    LET Mine(r) == r.user_id = user_id
        Reverse(q) == [i \in 1..Len(q) |-> q[Len(q) + 1 - i]]
    IN  {Reverse(q) : q \in Descending(SelectSeq(tk, Mine))}

\* get_my_tickets (app.py, app_new.py, simple_app.py) and list_by_user
\* (chalicelib/db.py): WHERE user_id = ? ORDER BY created_at DESC
get_my_tickets(tk, user_id) ==
    LET Mine(r) == r.user_id = user_id
    IN  Descending(SelectSeq(tk, Mine))

\* get_comments_for_ticket (app.py), get_comments (app_new.py) and
\* list_for_ticket (chalicelib/db.py): WHERE ticket_id = ? ORDER BY
\* created_at ASC; rows with equal created_at come in any order.
get_comments_for_ticket(cm, ticket_id) ==
    LET Of(r) == r.ticket_id = ticket_id
        Reverse(q) == [i \in 1..Len(q) |-> q[Len(q) + 1 - i]]
    IN  {Reverse(q) : q \in Descending(SelectSeq(cm, Of))}

\* SELECT COUNT(*) FROM tickets [WHERE user_id = ?]
CountAll(tk, user_id) ==
    Cardinality({i \in 1..Len(tk) :
                   Truthy(user_id) => tk[i].user_id = user_id.v})

\* SELECT COUNT(*) FROM tickets WHERE [user_id = ? AND] status IN (...)
CountWhere(tk, user_id, statuses) ==
    Cardinality({i \in 1..Len(tk) :
                   /\ (Truthy(user_id) => tk[i].user_id = user_id.v)
                   /\ tk[i].status \in statuses})

\* get_dashboard_metrics of app.py and simple_app.py: three COUNT queries.
get_dashboard_metrics(tk, user_id) ==
    [total |-> CountAll(tk, user_id),
     open |-> CountWhere(tk, user_id, {"open", "in_progress"}),
     resolved |-> CountWhere(tk, user_id, {"resolved", "closed"})]

\* get_metrics of chalicelib/db.py: one query with two CASE sums.
get_metrics(tk, user_id) ==
    [total |-> CountAll(tk, JStr(user_id)),
     open |-> CountWhere(tk, JStr(user_id), {"open"}),
     resolved |-> CountWhere(tk, JStr(user_id), {"resolved", "closed"})]

\* The handler of app_new.py: SELECT status, COUNT(*) ... GROUP BY status
\* and SELECT COUNT(*) FROM tickets, over every user's tickets.
AppNewMetrics(tk) ==
    [total_tickets |-> Len(tk),
     status_breakdown |->
        {[status |-> s, n |-> CountWhere(tk, JAbsent, {s})] :
            s \in {tk[i].status : i \in 1..Len(tk)}}]

\* get_user_id (app.py, simple_app.py) and resolve_user_id (chalicelib):
\* the X-User-Id header, else the configured default.
get_user_id(hdr) == OrElse(hdr, DEFAULT_USER_ID)


----------------------------------------------------------------------------
(* Handlers.  Each takes the state st and the request, and yields the      *)
(* state after it and its response.                                        *)

State == [tickets |-> tickets, ticket_files |-> ticket_files,
          comments |-> comments, dirs |-> dirs, disk |-> disk,
          bucket |-> bucket, clock |-> clock, nextId |-> nextId]

Storage(st) == [dirs |-> st.dirs, disk |-> st.disk, bucket |-> st.bucket,
                nextId |-> st.nextId]

HasValue(x) == x # None

\* The response to POST /tickets, or what the repository's create returned.
CreateResp(hdr, req, status, ticket, start) ==
    [op |-> "create", hdr |-> hdr, req |-> req, status |-> status,
     ticket |-> ticket, start |-> start]

\* The priorities POST /tickets of app.py and of simple_app.py accept.
AppPriorities == {"low", "medium", "high", "P1"}
SimplePriorities == {"low", "medium", "high"}

\* A file row that references its own id in place of the ticket's.
FileRowOrphan(file_id, ticket_id, file_url, file_name, created_at) ==
    [id |-> file_id, ticket_id |-> file_id, file_url |-> file_url,
     file_name |-> file_name, created_at |-> created_at]

\* A file row with the URL and the name bound to each other's column.
FileRowSwapped(file_id, ticket_id, file_url, file_name, created_at) ==
    [id |-> file_id, ticket_id |-> ticket_id, file_url |-> file_name,
     file_name |-> file_url, created_at |-> created_at]

\* The row save_ticket_file / create_ticket_file inserts.
FileRow(file_id, ticket_id, file_url, file_name, created_at) ==
    [id |-> file_id, ticket_id |-> ticket_id, file_url |-> file_url,
     file_name |-> file_name, created_at |-> created_at]

\* The row create_demo_comment of app.py inserts.
DemoComment(comment_id, ticket_id, user_id, created_at) ==
    [id |-> comment_id, ticket_id |-> ticket_id, user_id |-> SUPPORT_TEAM,
     comment |-> APP_AUTO_REPLY, created_at |-> created_at]

\* The row seed_demo_comment of chalicelib/db.py inserts.
SeededComment(comment_id, ticket_id, user_id, created_at) ==
    [id |-> comment_id, ticket_id |-> ticket_id, user_id |-> user_id,
     comment |-> CHALICE_AUTO_REPLY, created_at |-> created_at]

\* POST /tickets of app.py.  tick is how far the clock has moved when the
\* handler reads it, putFails whether S3's put_object raises, ioFails
\* whether the local write raises, dbFail the insert at which the database
\* raises ("none": it does not).
AppCreateTicket(st, s3, hdr, req, tick, putFails, ioFails, dbFail) ==
    LET user_id == get_user_id(hdr)
        start == st.clock
        now == st.clock + tick
        err(status, s) ==
            [s EXCEPT !.resp = CreateResp(hdr, req, status, None, start)]
        early == st @@ [resp |-> None]
    IN  IF req.subject = "" \/ req.priority = "" \/ req.category = ""
           \/ req.description = ""
        THEN err(400, early)
        ELSE IF req.priority \notin AppPriorities THEN err(400, early)
        ELSE
          LET wants == HasValue(req.attachment) /\ HasValue(req.attachment_name)
              up == IF wants
                    THEN upload_file(Storage(st), s3, req.attachment,
                                     req.attachment_name.segs, putFails,
                                     ioFails)
                    ELSE [ok |-> TRUE, status |-> 200, url |-> None,
                          size |-> 0, dirs |-> st.dirs, disk |-> st.disk,
                          bucket |-> st.bucket, nextId |-> st.nextId]
              s0 == [early EXCEPT !.dirs = up.dirs, !.disk = up.disk,
                                  !.bucket = up.bucket, !.nextId = up.nextId]
              s1 == [s0 EXCEPT !.clock = now]
          IN  IF ~up.ok THEN err(400, s0)
              ELSE IF dbFail = "ticket"
              THEN err(500, [s1 EXCEPT !.nextId = @ + 1])
              ELSE
                LET ticket_id == s1.nextId
                    row == InsertedRow(ticket_id, req.subject, req.priority,
                             req.category, req.description, user_id,
                             Now(now), up.url)
                    ticket == ReturnedTicket(ticket_id, req.subject,
                             req.priority, req.category, req.description,
                             user_id, Now(now), up.url)
                    s2 == [s1 EXCEPT !.tickets = Append(@, row),
                                     !.nextId = @ + 1]
                    s3a == IF HasValue(up.url) /\ dbFail # "file"
                           THEN [s2 EXCEPT
                                   !.ticket_files = Append(@,
                                      FileRow(s2.nextId, ticket_id, up.url,
                                              req.attachment_name, Now(now))),
                                   !.nextId = @ + 1]
                           ELSE IF HasValue(up.url)
                           THEN [s2 EXCEPT !.nextId = @ + 1]
                           ELSE s2
                IN  IF HasValue(up.url) /\ dbFail = "file" THEN err(500, s3a)
                    ELSE IF dbFail = "comment"
                    THEN err(500, [s3a EXCEPT !.nextId = @ + 1])
                    ELSE [s3a EXCEPT
                            !.comments = Append(@,
                               DemoComment(s3a.nextId, ticket_id, user_id,
                                           Now(now))),
                            !.nextId = @ + 1,
                            !.resp = CreateResp(hdr, req, 200, ticket, start)]

\* POST /tickets of app_new.py: no validation, a failed upload is dropped,
\* the owner is the configured default user.
AppNewCreateTicket(st, s3, hdr, req, tick, putFails, ioFails, dbFail) ==
    LET start == st.clock
        now == st.clock + tick
        base == [st EXCEPT !.clock = now] @@ [resp |-> None]
        wants == HasValue(req.attachment) /\ HasValue(req.attachment_name)
        up == IF wants
              THEN upload_file(Storage(st), s3, req.attachment,
                               req.attachment_name.segs, putFails, ioFails)
              ELSE [ok |-> FALSE, status |-> 200, url |-> None, size |-> 0,
                    dirs |-> st.dirs, disk |-> st.disk,
                    bucket |-> st.bucket, nextId |-> st.nextId]
        attachment_url == IF up.ok THEN up.url ELSE None
        s1 == [base EXCEPT !.dirs = up.dirs, !.disk = up.disk,
                           !.bucket = up.bucket, !.nextId = up.nextId]
        ticket_id == s1.nextId
    IN  IF dbFail = "ticket"
        THEN [s1 EXCEPT !.nextId = @ + 1,
                        !.resp = CreateResp(hdr, req, 500, None, start)]
        ELSE [s1 EXCEPT
                !.tickets = Append(@,
                   InsertedRow(ticket_id, req.subject, req.priority,
                      req.category, req.description, DEFAULT_USER_ID,
                      Now(now), attachment_url)),
                !.nextId = @ + 1,
                !.resp = CreateResp(hdr, req, 200,
                   ReturnedTicket(ticket_id, req.subject, req.priority,
                      req.category, req.description, DEFAULT_USER_ID,
                      Now(now), attachment_url), start)]

\* POST /tickets of simple_app.py: the priority is checked, the attachment
\* fields are ignored, the row has no attachment_url.
SimpleCreateTicket(st, hdr, req, tick, dbFail) ==
    LET user_id == get_user_id(hdr)
        start == st.clock
        now == st.clock + tick
        base == [st EXCEPT !.clock = now] @@ [resp |-> None]
        ticket_id == st.nextId
    IN  IF req.priority \notin SimplePriorities
        THEN st @@ [resp |-> CreateResp(hdr, req, 400, None, start)]
        ELSE IF dbFail = "ticket"
        THEN [base EXCEPT !.nextId = @ + 1,
                          !.resp = CreateResp(hdr, req, 500, None, start)]
        ELSE [base EXCEPT
                !.tickets = Append(@,
                   InsertedRow(ticket_id, req.subject, req.priority,
                      req.category, req.description, user_id, Now(now),
                      None)),
                !.nextId = @ + 1,
                !.resp = CreateResp(hdr, req, 200,
                   ReturnedTicket(ticket_id, req.subject, req.priority,
                      req.category, req.description, user_id, Now(now),
                      None), start)]

\* create_ticket that returns the stored ticket of an identical submission
\* and inserts nothing.
ChaliceCreateTicketDedup(st, user_id, req, attachment_url, tick, dbFail) ==
    LET start == st.clock
        now == st.clock + tick
        base == [st EXCEPT !.clock = now] @@ [resp |-> None]
        ticket_id == st.nextId
        Same(r) == /\ r.subject = req.subject
                   /\ r.priority = req.priority
                   /\ r.category = req.category
                   /\ r.description = req.description
                   /\ r.user_id = user_id
        dup == SelectSeq(st.tickets, Same)
    IN  IF dup # <<>>
        THEN [base EXCEPT
                !.resp = CreateResp(JStr(user_id), req, 0, Head(dup), start)]
        ELSE [base EXCEPT
                !.tickets = Append(@,
                   InsertedRow(ticket_id, req.subject, req.priority,
                      req.category, req.description, user_id, Now(now),
                      attachment_url)),
                !.nextId = @ + 1,
                !.resp = CreateResp(JStr(user_id), req, 0,
                   ReturnedTicket(ticket_id, req.subject, req.priority,
                      req.category, req.description, user_id, Now(now),
                      attachment_url), start)]

\* TicketRepository.create_ticket of chalicelib/db.py, called with the
\* fields of req, user_id and attachment_url.  status 0: no HTTP layer.
ChaliceCreateTicket(st, user_id, req, attachment_url, tick, dbFail) ==
    LET start == st.clock
        now == st.clock + tick
        base == [st EXCEPT !.clock = now] @@ [resp |-> None]
        ticket_id == st.nextId
    IN  IF dbFail = "ticket"
        THEN [base EXCEPT !.nextId = @ + 1,
                !.resp = CreateResp(JStr(user_id), req, 500, None, start)]
        ELSE [base EXCEPT
                !.tickets = Append(@,
                   InsertedRow(ticket_id, req.subject, req.priority,
                      req.category, req.description, user_id, Now(now),
                      attachment_url)),
                !.nextId = @ + 1,
                !.resp = CreateResp(JStr(user_id), req, 0,
                   ReturnedTicket(ticket_id, req.subject, req.priority,
                      req.category, req.description, user_id, Now(now),
                      attachment_url), start)]


\* GET /tickets/{ticket_id}, and get_ticket of chalicelib/db.py called with
\* the resolved user (status 0: no HTTP layer).
GetTicketResp(v, tk, hdr, ticket_id) ==
    LET user_id == get_user_id(hdr)
        ticket == CASE v = "app" -> AppGetTicket(tk, ticket_id, JStr(user_id))
                    [] v = "app_new" -> SharedGetTicket(tk, ticket_id)
                    [] OTHER -> ScopedGetTicket(tk, ticket_id, user_id)
    IN  [op |-> "get", hdr |-> hdr, id |-> ticket_id, ticket |-> ticket,
         status |-> IF v = "chalice" THEN 0
                    ELSE IF ticket = None THEN 404 ELSE 200]

\* The user whose tickets GET /tickets/my lists: app_new.py reads a query
\* parameter user_id (default: the configured user), not the header.
ListUser(v, hdr, query) ==
    IF v = "app_new"
    THEN (IF query.t = "absent" THEN DEFAULT_USER_ID ELSE query.v)
    ELSE get_user_id(hdr)

ListResp(hdr, query, listed) ==
    [op |-> "list", hdr |-> hdr, query |-> query, status |-> 200,
     tickets |-> listed]

\* GET /dashboard/metrics, and get_metrics of chalicelib/db.py.
MetricsResp(v, tk, hdr) ==
    [op |-> "metrics", hdr |-> hdr, status |-> IF v = "chalice" THEN 0 ELSE 200,
     metrics |->
        CASE v = "app_new" -> AppNewMetrics(tk)
          [] v = "chalice" -> get_metrics(tk, get_user_id(hdr))
          [] OTHER -> get_dashboard_metrics(tk, JStr(get_user_id(hdr)))]

----------------------------------------------------------------------------
(* Request validation: chalicelib/schemas.py                               *)

JNull == [t |-> "null"]

REQUIRED_FIELDS == <<"subject", "priority", "category", "description">>
ALLOWED_PRIORITIES == {"low", "medium", "high"}

\* A str.lower() that leaves its argument as it is.
LowerKeepsCase(s) == s

\* str.lower() on the priority texts the model uses.
Lower(s) ==
    CASE s = "HIGH" -> "high"
      [] s = "Medium" -> "medium"
      [] s = "P1" -> "p1"
      [] OTHER -> s

\* body.get(field) as the payload keeps it: None for a missing key or null.
PyGet(b, field) == IF b[field].t \in {"absent", "null"} THEN None ELSE b[field]

\* A variant that reports only the first field that is missing.
MissingFieldsFirst(b, fields) ==
    LET Falsy(f) == ~Truthy(b[f])
        missing == SelectSeq(fields, Falsy)
    IN  IF missing = <<>> THEN <<>> ELSE <<Head(missing)>>

\* [field for field in REQUIRED_FIELDS if not body.get(field)]
MissingFields(b, fields) ==
    LET Falsy(f) == ~Truthy(b[f])
    IN  SelectSeq(fields, Falsy)

BadRequest(kind, fields) ==
    [op |-> "parse", ok |-> FALSE, status |-> 400, error |-> kind,
     fields |-> fields, payload |-> None]

\* parse_ticket_payload on a JSON object b.
parse_ticket_payload(b) ==
    LET missing == MissingFields(b, REQUIRED_FIELDS)
        priority == Lower(b.priority.v)
        attachment == PyGet(b, "attachment")
        attachment_name == PyGet(b, "attachment_name")
    IN  IF missing # <<>> THEN BadRequest("Missing required field(s)", missing)
        ELSE IF priority \notin ALLOWED_PRIORITIES
        THEN BadRequest("Invalid priority", <<>>)
        ELSE IF Truthy(b.attachment) /\ ~Truthy(b.attachment_name)
        THEN BadRequest("attachment_name is required", <<>>)
        ELSE IF Truthy(b.attachment) /\ ~b.attachment.p.ok
        THEN BadRequest("attachment must be Base64 encoded", <<>>)
        ELSE [op |-> "parse", ok |-> TRUE, status |-> 200, error |-> "",
              fields |-> <<>>,
              payload |-> [subject |-> b.subject.v, priority |-> priority,
                           category |-> b.category.v,
                           description |-> b.description.v,
                           attachment |-> attachment,
                           attachment_name |-> attachment_name]]


----------------------------------------------------------------------------
(* Database connections: shared.py and chalicelib/db.py                    *)

\* DatabaseManager.get_connection of shared.py.  network: DATABASE_URL names
\* a PostgreSQL server; reachable: psycopg2.connect succeeds.  A failed
\* connect is printed and the SQLite file is opened instead.
get_connection(network, reachable) ==
    IF network /\ reachable
    THEN [ok |-> TRUE, db |-> "postgresql", error |-> ""]
    ELSE [ok |-> TRUE, db |-> "sqlite", error |-> ""]

\* DatabaseClient.connection of chalicelib/db.py.  network: DB_HOST is set.
\* _connect_postgres logs OperationalError and re-raises it.
connection(network, reachable) ==
    IF ~network THEN [ok |-> TRUE, db |-> "sqlite", error |-> ""]
    ELSE IF reachable THEN [ok |-> TRUE, db |-> "postgresql", error |-> ""]
    ELSE [ok |-> FALSE, db |-> "", error |-> "OperationalError"]

\* A repository call: it opens a connection and runs its statement on it; an
\* exception of the connect leaves the call.
RepositoryCall(v, call, network, reachable) ==
    LET c == IF v = "chalice" THEN connection(network, reachable)
             ELSE get_connection(network, reachable)
    IN  [op |-> "connect", call |-> call, ok |-> c.ok, db |-> c.db,
         error |-> c.error]

----------------------------------------------------------------------------
(* The database object: DatabaseManager (shared.py, simple_app.py) and     *)
(* DatabaseClient (chalicelib/db.py)                                       *)

AllTables == {"tickets", "ticket_files", "comments"}

\* The tables that the CREATE TABLE IF NOT EXISTS statements of a variant's
\* bootstrap name: simple_app.py has none for ticket_files.
SchemaStatements(v) ==
    IF v = "simple_app" THEN {"tickets", "comments"} ELSE AllTables

\* A database object before its constructor has run.  network: DATABASE_URL
\* names a PostgreSQL server (shared.py) / DB_HOST is set (chalicelib);
\* sqlite and postgresql are the tables each database holds already.
NoStore(network, sqlite, postgresql) ==
    [built |-> FALSE, network |-> network, use_sqlite |-> TRUE,
     placeholder |-> "", conns |-> 0,
     tables |-> [sqlite |-> sqlite, postgresql |-> postgresql]]

\* DatabaseManager.__init__ and init_database.  shared.py connects with
\* get_connection, simple_app.py always to the SQLite file; the statements
\* run and are committed; leaving the `with` block of a sqlite3 or psycopg2
\* connection ends the transaction and does not close the connection.
init_database(v, s, reachable) ==
    LET c == get_connection(v # "simple_app" /\ s.network, reachable)
    IN  [s EXCEPT !.built = TRUE,
                  !.tables[c.db] = @ \cup SchemaStatements(v),
                  !.conns = @ + 1]

\* DatabaseClient.__init__: the backend and the placeholder are fixed from
\* DB_HOST; only the SQLite backend is given its schema, on a connection
\* that the context manager closes.
DatabaseClientInit(s) ==
    IF ~s.network
    THEN [s EXCEPT !.built = TRUE, !.use_sqlite = TRUE, !.placeholder = "?",
                   !.tables.sqlite = @ \cup AllTables]
    ELSE [s EXCEPT !.built = TRUE, !.use_sqlite = FALSE,
                   !.placeholder = "%s"]

\* The table that a repository method's statement reads or writes.
TableOf(call) ==
    CASE call \in {"save_ticket_file"} -> "ticket_files"
      [] call \in {"create_demo_comment", "get_comments_for_ticket"} ->
            "comments"
      [] OTHER -> "tickets"

\* The placeholder in the text of a variant's statements: chalicelib builds
\* the text from self.db.placeholder, the other variants write "?".
StatementStyle(v, s) == IF v = "chalice" THEN s.placeholder ELSE "?"

\* The placeholder that a database's driver substitutes.
DriverStyle(db) == IF db = "postgresql" THEN "%s" ELSE "?"

\* One repository method run on the database object s: it connects, runs
\* its statement, commits, and leaves.  fails: the statement raises for a
\* reason outside the model.  chalicelib closes the connection in the
\* `finally` of DatabaseClient.connection on either exit; the `with` blocks
\* of the other variants leave it open on either exit.
StoreCall(v, s, call, reachable, fails) ==
    LET c == RepositoryCall(v, call, v # "simple_app" /\ s.network, reachable)
        style == StatementStyle(v, s)
        raises == \/ fails
                  \/ TableOf(call) \notin s.tables[c.db]
                  \/ style # DriverStyle(c.db)
    IN  IF ~c.ok
        THEN [store |-> s,
              resp |-> [op |-> "store", call |-> call, executed |-> FALSE,
                        ok |-> FALSE, db |-> c.db, placeholder |-> style,
                        error |-> c.error]]
        ELSE [store |-> [s EXCEPT !.conns =
                            IF v = "chalice" THEN @ ELSE @ + 1],
              resp |-> [op |-> "store", call |-> call, executed |-> TRUE,
                        ok |-> ~raises, db |-> c.db, placeholder |-> style,
                        error |-> IF raises THEN "DatabaseError" ELSE ""]]

\* Constructing the database object of variant v.
Construct(v, s, reachable) ==
    IF v = "chalice" THEN DatabaseClientInit(s)
    ELSE init_database(v, s, reachable)

\* The garbage collector finalizes the connection objects that nothing
\* refers to any more, which closes them.
Collected(s) == [s EXCEPT !.conns = 0]

\* The database object of a deployment on the SQLite file, once started.
SqliteStore(v) == Collected(Construct(v, NoStore(FALSE, {}, {}), TRUE))

----------------------------------------------------------------------------
(* Error responses: app.py and simple_app.py                               *)

\* The message with which an endpoint of app.py answers an exception.
FailedTo(endpoint) ==
    CASE endpoint = "create_ticket" -> "Failed to create ticket"
      [] endpoint = "get_my_tickets" -> "Failed to fetch tickets"
      [] endpoint = "get_ticket" -> "Failed to fetch ticket"
      [] endpoint = "get_ticket_comments" -> "Failed to fetch comments"
      [] OTHER -> "Failed to fetch metrics"

\* `except Exception as e` of an endpoint: app.py appends str(e) to the
\* message, simple_app.py does not.  A text is the list of its parts.
EndpointError(v, endpoint, exc) ==
    [op |-> "error", status |-> 500,
     message |-> IF v = "app" THEN <<FailedTo(endpoint), ": ", exc>>
                 ELSE <<FailedTo(endpoint)>>,
     detail |-> <<>>]

\* global_exception_handler: app.py echoes str(exc) when Config.DEBUG,
\* simple_app.py always.
global_exception_handler(v, debug, exc) ==
    [op |-> "error", status |-> 500, message |-> <<"Internal server error">>,
     detail |-> IF v = "app" /\ ~debug THEN <<"Something went wrong">>
                ELSE <<exc>>]

----------------------------------------------------------------------------
(* Actions                                                                 *)

Variants == {"app", "app_new", "simple_app", "chalice"}

Users == {"u1"}
Headers == {JAbsent} \cup {JStr(u) : u \in Users}

PlainReq(subject, priority, category, description) ==
    [subject |-> subject, priority |-> priority, category |-> category,
     description |-> description, attachment |-> None,
     attachment_name |-> None]

\* The requests without attachment that the API is driven with.
PlainReqs ==
    {PlainReq("printer", "low", "hardware", "no toner"),
     PlainReq("login", "P1", "account", "locked out"),
     PlainReq("vpn", "high", "network", "")}

\* The ids a client asks for: every ticket's, and one that no ticket has.
TicketIds == {tickets[i].id : i \in 1..Len(tickets)} \cup {nextId}

Install(o) ==
    /\ tickets' = o.tickets
    /\ ticket_files' = o.ticket_files
    /\ comments' = o.comments
    /\ dirs' = o.dirs
    /\ disk' = o.disk
    /\ bucket' = o.bucket
    /\ clock' = o.clock
    /\ nextId' = o.nextId
    /\ resp' = o.resp
    /\ UNCHANGED <<store, pending>>
    /\ UNCHANGED <<variant, remote, body>>

\* POST /tickets (for chalicelib: TicketRepository.create_ticket with the
\* resolved user and no attachment URL).
CreateOutcome(hdr, req, tick, putFails, ioFails, dbFail) ==
    CASE variant = "app" ->
           AppCreateTicket(State, remote, hdr, req, tick, putFails, ioFails,
                           dbFail)
      [] variant = "app_new" ->
           AppNewCreateTicket(State, remote, hdr, req, tick, putFails,
                              ioFails, dbFail)
      [] variant = "simple_app" ->
           SimpleCreateTicket(State, hdr, req, tick, dbFail)
      [] OTHER ->
           ChaliceCreateTicket(State, get_user_id(hdr), req, None, tick,
                               dbFail)

PostTickets(hdr, req, tick, putFails, ioFails, dbFail) ==
    Install(CreateOutcome(hdr, req, tick, putFails, ioFails, dbFail))

Answer(r) ==
    /\ resp' = r
    /\ UNCHANGED <<store, pending>>
    /\ UNCHANGED <<variant, remote, tickets, ticket_files, comments, dirs,
                   disk, bucket, clock, nextId, body>>

GetTicket(hdr, ticket_id) ==
    Answer(GetTicketResp(variant, tickets, hdr, ticket_id))

GetMyTickets(hdr, query) ==
    \E listed \in get_my_tickets(tickets, ListUser(variant, hdr, query)) :
        Answer(ListResp(hdr, query, listed))

GetDashboardMetrics(hdr) ==
    Answer(MetricsResp(variant, tickets, hdr))

\* GET /tickets/{ticket_id}/comments: no user is looked at.
GetTicketComments(ticket_id) ==
    \E listed \in get_comments_for_ticket(comments, ticket_id) :
        Answer([op |-> "comments", id |-> ticket_id, status |-> 200,
                comments |-> listed])

\* A collaborator outside this code base changes the status of ticket i.
SetStatus(i, status) ==
    /\ tickets' = [tickets EXCEPT ![i].status = status]
    /\ resp' = [op |-> "set_status", id |-> tickets[i].id]
    /\ UNCHANGED <<store, pending>>
    /\ UNCHANGED <<variant, remote, ticket_files, comments, dirs, disk,
                   bucket, clock, nextId, body>>

----------------------------------------------------------------------------
(* Specifications                                                          *)

InitStore ==
    /\ tickets = <<>>
    /\ ticket_files = <<>>
    /\ comments = <<>>
    /\ dirs = {<<>>, UploadFolder, Parent(LocalRoot), LocalRoot}
    /\ disk = {}
    /\ bucket = {}
    /\ clock = 1
    /\ nextId = 1
    /\ body = None
    /\ resp = [op |-> "none"]
    /\ store = SqliteStore(variant)
    /\ pending = None

\* The ticket API of one variant, driven without attachments.
Init ==
    /\ variant \in Variants
    /\ remote = FALSE
    /\ InitStore

Next ==
    \/ \E hdr \in Headers, req \in PlainReqs, tick \in 0..1 :
          /\ Len(tickets) < MaxTickets
          /\ PostTickets(hdr, req, tick, FALSE, FALSE, "none")
    \/ \E hdr \in Headers, ticket_id \in TicketIds : GetTicket(hdr, ticket_id)
    \/ \E hdr \in Headers, query \in Headers : GetMyTickets(hdr, query)
    \/ \E hdr \in Headers : GetDashboardMetrics(hdr)

Spec == Init /\ [][Next]_vars


\* The ticket API with a status that a collaborator changes: one request
\* text, the clock moving between any two creations.
MetricReq == PlainReq("printer", "low", "hardware", "no toner")

NextMetrics ==
    \/ \E hdr \in Headers :
          /\ Len(tickets) < MaxMetricTickets
          /\ PostTickets(hdr, MetricReq, 1, FALSE, FALSE, "none")
    \/ \E i \in 1..Len(tickets), status \in Statuses : SetStatus(i, status)
    \/ \E hdr \in Headers : GetDashboardMetrics(hdr)

SpecMetrics == Init /\ [][NextMetrics]_vars

\* The blob store alone: StorageManager of shared.py under "app",
\* StorageClient of chalicelib/storage.py under "chalice".
UploadResp(file_data, file_name, putFails, ioFails, up) ==
    [op |-> "upload", data |-> file_data, name |-> file_name,
     putFails |-> putFails, ioFails |-> ioFails, ok |-> up.ok,
     status |-> up.status,
     url |-> up.url, size |-> up.size]

Upload(file_data, file_name, putFails, ioFails) ==
    LET up == IF variant = "chalice"
              THEN store_base64_blob(Storage(State), remote, file_data,
                                     file_name, putFails, ioFails)
              ELSE upload_file(Storage(State), remote, file_data, file_name,
                               putFails, ioFails)
    IN  /\ dirs' = up.dirs
        /\ disk' = up.disk
        /\ bucket' = up.bucket
        /\ nextId' = up.nextId
        /\ resp' = UploadResp(file_data, file_name, putFails, ioFails, up)
        /\ UNCHANGED <<store, pending>>
        /\ UNCHANGED <<variant, remote, tickets, ticket_files, comments,
                       clock, body>>

\* Attachment texts: decoded sizes at and just over the limit, two
\* contents, with and without a data-URI prefix, and one that fails to decode.
Payloads ==
    {Payload(FALSE, TRUE, Bytes(MAX_FILE_SIZE, 1)),
     Payload(TRUE, TRUE, Bytes(MAX_FILE_SIZE, 2)),
     Payload(TRUE, TRUE, Bytes(MAX_FILE_SIZE + 1, 1)),
     Payload(FALSE, FALSE, Bytes(0, 0))}

\* File names: a plain one, and two with directory and parent segments.
FileNames ==
    {<<"a.txt">>, <<"d", "..", "..", "a.txt">>,
     <<"d", "..", "..", "..", "a.txt">>}

SegNames(name) == [i \in 1..Len(name) |-> Seg(name[i])]

InitStorage ==
    /\ variant \in {"app", "chalice"}
    /\ remote \in BOOLEAN
    /\ InitStore

NextStorage ==
    \E file_data \in Payloads, file_name \in FileNames,
       putFails \in BOOLEAN, ioFails \in BOOLEAN :
        /\ nextId <= MaxUploads
        /\ Upload(file_data, SegNames(file_name), putFails, ioFails)

SpecStorage == InitStorage /\ [][NextStorage]_vars

\* The ticket API with attachments and with failures of the storage service,
\* the local disk and the database; for chalicelib, the repository calls.
WithAttachment(attachment, attachment_name) ==
    [subject |-> "printer", priority |-> "low", category |-> "hardware",
     description |-> "no toner", attachment |-> attachment,
     attachment_name |-> attachment_name]

FileName(name) == [segs |-> SegNames(name)]

FaultReqs ==
    {PlainReq("printer", "low", "hardware", "no toner"),
     PlainReq("printer", "urgent", "hardware", "no toner"),
     WithAttachment(Payload(TRUE, TRUE, Bytes(1, 1)), FileName(<<"a.txt">>)),
     WithAttachment(Payload(TRUE, TRUE, Bytes(1, 1)), None),
     WithAttachment(Payload(FALSE, TRUE, Bytes(MAX_FILE_SIZE + 1, 1)),
                    FileName(<<"a.txt">>)),
     WithAttachment(Payload(FALSE, FALSE, Bytes(0, 0)), FileName(<<"a.txt">>))}

\* The failures injected into one request: the storage service's, the local
\* disk's or both, or the database's at one of the handler's inserts.
Faults ==
    {[putFails |-> p, ioFails |-> i, dbFail |-> "none"] :
        p \in BOOLEAN, i \in BOOLEAN}
    \cup {[putFails |-> FALSE, ioFails |-> FALSE, dbFail |-> d] :
             d \in {"ticket", "file", "comment"}}

\* POST /tickets, the response annotated with the failures injected.
PostTicketsFaulty(hdr, req, putFails, ioFails, dbFail) ==
    LET o == CreateOutcome(hdr, req, 1, putFails, ioFails, dbFail)
    IN  Install([o EXCEPT !.resp = @ @@ [putFails |-> putFails,
                                         ioFails |-> ioFails,
                                         dbFail |-> dbFail,
                                         rows |-> Len(tickets),
                                         comments |-> Len(comments)]])

\* A seeding that deletes the comments stored before it inserts.
SeedDemoCommentReplacing(ticket_id, user_id) ==
    /\ variant = "chalice"
    /\ comments' = <<SeededComment(nextId, ticket_id, user_id,
                                   Now(clock + 1))>>
    /\ nextId' = nextId + 1
    /\ clock' = clock + 1
    /\ resp' = [op |-> "seed", id |-> ticket_id, user_id |-> user_id,
                comments |-> Len(comments)]
    /\ UNCHANGED <<store, pending>>
    /\ UNCHANGED <<variant, remote, tickets, ticket_files, dirs, disk, bucket,
                   body>>

\* CommentRepository.seed_demo_comment(ticket_id, user_id) of chalicelib.
SeedDemoComment(ticket_id, user_id) ==
    /\ variant = "chalice"
    /\ comments' = Append(comments,
                     SeededComment(nextId, ticket_id, user_id, Now(clock + 1)))
    /\ nextId' = nextId + 1
    /\ clock' = clock + 1
    /\ resp' = [op |-> "seed", id |-> ticket_id, user_id |-> user_id,
                comments |-> Len(comments)]
    /\ UNCHANGED <<store, pending>>
    /\ UNCHANGED <<variant, remote, tickets, ticket_files, dirs, disk, bucket,
                   body>>

InitFaults ==
    /\ variant \in {"app", "app_new", "chalice"}
    /\ remote \in BOOLEAN
    /\ InitStore

NextFaults ==
    \/ \E hdr \in Headers, req \in FaultReqs, f \in Faults :
          /\ Len(tickets) < MaxTickets
          /\ nextId <= MaxFaultIds
          /\ PostTicketsFaulty(hdr, req, f.putFails, f.ioFails, f.dbFail)
    \/ \E hdr \in Headers, ticket_id \in TicketIds : GetTicket(hdr, ticket_id)
    \/ \E i \in 1..Len(tickets), hdr \in Headers :
          /\ Len(comments) < MaxTickets
          /\ SeedDemoComment(tickets[i].id, get_user_id(hdr))

SpecFaults == InitFaults /\ [][NextFaults]_vars

\* The whole ticket API: creations with and without an attachment, with a
\* failure of the disk or of the database at one of the handler's inserts,
\* the seeding of chalicelib, and the read requests.
ApiReqs ==
    {PlainReq("printer", "low", "hardware", "no toner"),
     WithAttachment(Payload(TRUE, TRUE, Bytes(1, 1)), FileName(<<"a.txt">>))}

ApiFaults ==
    {[putFails |-> FALSE, ioFails |-> i, dbFail |-> "none"] : i \in BOOLEAN}
    \cup {[putFails |-> FALSE, ioFails |-> FALSE, dbFail |-> d] :
             d \in {"ticket", "file", "comment"}}

InitApi ==
    /\ variant \in {"app", "app_new", "chalice"}
    /\ remote \in BOOLEAN
    /\ InitStore

NextApi ==
    \/ \E hdr \in Headers, req \in ApiReqs, f \in ApiFaults :
          /\ Len(tickets) < MaxTickets
          /\ nextId <= MaxFaultIds
          /\ PostTicketsFaulty(hdr, req, f.putFails, f.ioFails, f.dbFail)
    \/ \E i \in 1..Len(tickets) :
          /\ Len(comments) < MaxTickets
          /\ SeedDemoComment(tickets[i].id, tickets[i].user_id)
    \/ \E hdr \in Headers, ticket_id \in TicketIds : GetTicket(hdr, ticket_id)
    \/ \E hdr \in Headers : GetMyTickets(hdr, JAbsent)
    \/ \E hdr \in Headers : GetDashboardMetrics(hdr)
    \/ \E ticket_id \in TicketIds : GetTicketComments(ticket_id)

SpecApi == InitApi /\ [][NextApi]_vars

\* The metrics computation next to creations by other requests.  The three
\* COUNT statements of get_dashboard_metrics (app.py) run one after another on
\* a connection that is in no transaction, so each reads the rows committed
\* when it runs; get_metrics of chalicelib is one statement.
BeginMetrics(hdr) ==
    /\ pending = None
    /\ pending' = [hdr |-> hdr, step |-> "total",
                   total |-> CountAll(tickets, JStr(get_user_id(hdr))),
                   open |-> 0]
    /\ UNCHANGED <<store, resp, variant, remote, tickets, ticket_files,
                   comments, dirs, disk, bucket, clock, nextId, body>>

CountOpen ==
    /\ pending # None
    /\ pending.step = "total"
    /\ pending' = [pending EXCEPT
                     !.step = "open",
                     !.open = CountWhere(tickets,
                                 JStr(get_user_id(pending.hdr)),
                                 {"open", "in_progress"})]
    /\ UNCHANGED <<store, resp, variant, remote, tickets, ticket_files,
                   comments, dirs, disk, bucket, clock, nextId, body>>

CountResolved ==
    /\ pending # None
    /\ pending.step = "open"
    /\ resp' = [op |-> "metrics", hdr |-> pending.hdr, status |-> 200,
                metrics |->
                   [total |-> pending.total, open |-> pending.open,
                    resolved |-> CountWhere(tickets,
                                    JStr(get_user_id(pending.hdr)),
                                    {"resolved", "closed"})]]
    /\ pending' = None
    /\ UNCHANGED <<store, variant, remote, tickets, ticket_files, comments,
                   dirs, disk, bucket, clock, nextId, body>>

InitConcurrent ==
    /\ variant \in {"app", "chalice"}
    /\ remote = FALSE
    /\ InitStore

NextConcurrent ==
    \/ \E hdr \in Headers, tick \in 0..1 :
          /\ Len(tickets) < MaxTickets
          /\ PostTickets(hdr, MetricReq, tick, FALSE, FALSE, "none")
    \/ \E hdr \in Headers : variant = "app" /\ BeginMetrics(hdr)
    \/ CountOpen
    \/ CountResolved
    \/ \E hdr \in Headers : variant = "chalice" /\ GetDashboardMetrics(hdr)

SpecConcurrent == InitConcurrent /\ [][NextConcurrent]_vars

\* One repository call under one database configuration.
Calls == {"create_ticket", "get_my_tickets", "get_ticket", "get_metrics"}

ConnectInputs ==
    [call : Calls, network : BOOLEAN, reachable : BOOLEAN, user : Headers]

InitInput(vs, inputs) ==
    /\ variant \in vs
    /\ remote = FALSE
    /\ tickets = <<>>
    /\ ticket_files = <<>>
    /\ comments = <<>>
    /\ dirs = {<<>>, UploadFolder, Parent(LocalRoot), LocalRoot}
    /\ disk = {}
    /\ bucket = {}
    /\ clock = 1
    /\ nextId = 1
    /\ body \in inputs
    /\ resp = [op |-> "none"]
    /\ store = SqliteStore(variant)
    /\ pending = None

InitConnect == InitInput({"app", "app_new", "chalice"}, ConnectInputs)

Connect ==
    /\ resp.op = "none"
    /\ resp' = RepositoryCall(variant, body.call, body.network,
                              body.reachable)
    /\ UNCHANGED <<store, pending>>
    /\ UNCHANGED <<variant, remote, tickets, ticket_files, comments, dirs,
                   disk, bucket, clock, nextId, body>>

SpecConnect == InitConnect /\ [][Connect]_vars

\* The database object alone: constructed, used by repository methods and
\* constructed again, on a database that a previous run may have populated.
\* The rows are those of the previous run; the methods' effect on them is
\* that of the ticket API above and is left out here.
StoreCalls ==
    Calls \cup {"save_ticket_file", "create_demo_comment",
                "get_comments_for_ticket"}

ConstructStore(reachable) ==
    /\ store.conns < MaxConns
    /\ store' = Construct(variant, store, reachable)
    /\ resp' = [op |-> "construct", reachable |-> reachable]
    /\ UNCHANGED <<pending, variant, remote, tickets, ticket_files, comments,
                   dirs, disk, bucket, clock, nextId, body>>

CallStore(call, reachable, fails) ==
    LET o == StoreCall(variant, store, call, reachable, fails)
    IN  /\ store.built
        /\ store.conns < MaxConns
        /\ store' = o.store
        /\ resp' = o.resp
        /\ UNCHANGED <<pending, variant, remote, tickets, ticket_files,
                       comments, dirs, disk, bucket, clock, nextId, body>>

Collect ==
    /\ store.conns > 0
    /\ store' = Collected(store)
    /\ resp' = [op |-> "collect"]
    /\ UNCHANGED <<pending, variant, remote, tickets, ticket_files, comments,
                   dirs, disk, bucket, clock, nextId, body>>

InitDatabase ==
    /\ variant \in Variants
    /\ remote = FALSE
    /\ \E network \in BOOLEAN, prior \in SUBSET {"sqlite", "postgresql"} :
          /\ store = NoStore(network,
                        IF "sqlite" \in prior THEN AllTables ELSE {},
                        IF "postgresql" \in prior THEN AllTables ELSE {})
          /\ tickets =
                IF prior = {} THEN <<>>
                ELSE <<InsertedRow(0, "printer", "low", "hardware",
                                   "no toner", "u1", isoformat(0), None)>>
    /\ ticket_files = <<>>
    /\ comments = <<>>
    /\ dirs = {<<>>, UploadFolder, Parent(LocalRoot), LocalRoot}
    /\ disk = {}
    /\ bucket = {}
    /\ clock = 1
    /\ nextId = 1
    /\ body = None
    /\ resp = [op |-> "none"]
    /\ pending = None

NextDatabase ==
    \/ \E reachable \in BOOLEAN : ConstructStore(reachable)
    \/ \E call \in StoreCalls, reachable \in BOOLEAN, fails \in BOOLEAN :
          CallStore(call, reachable, fails)
    \/ Collect

SpecDatabase == InitDatabase /\ [][NextDatabase]_vars

\* One exception in one endpoint, or reaching the application's handler.
Endpoints ==
    {"create_ticket", "get_my_tickets", "get_ticket", "get_ticket_comments",
     "get_dashboard_metrics"}

Exceptions ==
    {"database is locked", "no such table: tickets", "disk I/O error"}

ErrorInputs ==
    [debug : BOOLEAN, exc : Exceptions, origin : Endpoints \cup {"global"}]

InitErrors == InitInput({"app", "simple_app"}, ErrorInputs)

Raise ==
    /\ resp.op = "none"
    /\ resp' = IF body.origin = "global"
               THEN global_exception_handler(variant, body.debug, body.exc)
               ELSE EndpointError(variant, body.origin, body.exc)
    /\ UNCHANGED <<store, pending>>
    /\ UNCHANGED <<variant, remote, tickets, ticket_files, comments, dirs,
                   disk, bucket, clock, nextId, body>>

SpecErrors == InitErrors /\ [][Raise]_vars

\* parse_ticket_payload alone, on one JSON object per behaviour.
Texts == {JAbsent, JNull, JStr(""), JStr("x")}
PriorityTexts ==
    {JAbsent, JStr(""), JStr("low"), JStr("HIGH"), JStr("Medium"),
     JStr("P1"), JStr("urgent")}
Attachments == {JAbsent, JNull, JStr(""),
                JB64(Payload(TRUE, TRUE, Bytes(1, 1))),
                JB64(Payload(FALSE, FALSE, Bytes(0, 0)))}
AttachmentNames == {JAbsent, JStr("a.txt")}

Bodies ==
    [subject : Texts, priority : PriorityTexts, category : Texts,
     description : Texts, attachment : Attachments,
     attachment_name : AttachmentNames]

InitParse ==
    /\ variant = "chalice"
    /\ remote = FALSE
    /\ tickets = <<>>
    /\ ticket_files = <<>>
    /\ comments = <<>>
    /\ dirs = {<<>>, UploadFolder, Parent(LocalRoot), LocalRoot}
    /\ disk = {}
    /\ bucket = {}
    /\ clock = 1
    /\ nextId = 1
    /\ body \in Bodies
    /\ resp = [op |-> "none"]
    /\ store = SqliteStore(variant)
    /\ pending = None

Parse ==
    /\ resp.op = "none"
    /\ resp' = parse_ticket_payload(body)
    /\ UNCHANGED <<store, pending>>
    /\ UNCHANGED <<variant, remote, tickets, ticket_files, comments, dirs,
                   disk, bucket, clock, nextId, body>>

SpecParse == InitParse /\ [][Parse]_vars

----------------------------------------------------------------------------
(* Properties                                                              *)

\* The user a request is made by: its X-User-Id header, or the configured
\* default user when it carries none.
Requester(hdr) ==
    IF hdr.t = "str" /\ hdr.v # "" THEN hdr.v ELSE DEFAULT_USER_ID

\* The tick a timestamp text was made from.
Ticks(text) ==
    text[1] * TicksPerSecond + (IF text[2] = 0 THEN 0 ELSE text[3])

\* The position of a row in its table: rows are kept in insertion order.
RowIndex(tk, id) == CHOOSE i \in 1..Len(tk) : tk[i].id = id

\* C1: get_ticket of app.py and of chalicelib/db.py, asked for a ticket id
\* by a non-empty user id, returns None when the ticket with that id belongs
\* to another user and returns the ticket's row when it belongs to that user,
\* whatever tickets have been created before.
C1_OwnerScopedLookup ==
    (resp.op = "get" /\ variant \in {"app", "chalice"}) =>
        \A i \in 1..Len(tickets) :
            tickets[i].id = resp.id =>
               /\ tickets[i].user_id # Requester(resp.hdr) => resp.ticket = None
               /\ tickets[i].user_id = Requester(resp.hdr) => resp.ticket = tickets[i]

C1_Witness ==
    /\ resp.op = "get" /\ variant = "app" /\ resp.ticket = None
    /\ \E i, j \in 1..Len(tickets) :
          /\ tickets[i].id = resp.id
          /\ tickets[i].user_id # Requester(resp.hdr)
          /\ tickets[j].user_id = Requester(resp.hdr)

\* C2: every GET /tickets/{id} (app.py, app_new.py, simple_app.py) made by a
\* user other than the ticket's owner is answered 404 and carries no ticket.
C2_OwnerFilterOnEveryPath ==
    (resp.op = "get" /\ variant \in {"app", "app_new", "simple_app"}) =>
        \A i \in 1..Len(tickets) :
            (tickets[i].id = resp.id /\ tickets[i].user_id # Requester(resp.hdr))
               => (resp.status = 404 /\ resp.ticket = None)

\* C3: when create_ticket (app.py, chalicelib/db.py) has returned ticket t,
\* get_ticket(t.id, t.user_id) returns a row equal to t in every field, with
\* status "open", and t.created_at is not earlier than the start of the call.
C3_CreateThenFetch ==
    (resp.op = "create" /\ resp.ticket # None /\ variant \in {"app", "chalice"}) =>
        LET t == resp.ticket
            fetched == IF variant = "app"
                       THEN AppGetTicket(tickets, t.id, JStr(t.user_id))
                       ELSE ScopedGetTicket(tickets, t.id, t.user_id)
        IN  /\ fetched = t
            /\ fetched.status = "open"
            /\ fetched.subject = resp.req.subject
            /\ fetched.category = resp.req.category
            /\ fetched.description = resp.req.description
            /\ fetched.priority = resp.req.priority
            /\ Ticks(t.created_at) >= resp.start

C3_Witness ==
    /\ resp.op = "create" /\ resp.ticket # None /\ variant = "app"
    /\ Len(tickets) = 2
    /\ Ticks(resp.ticket.created_at) > resp.start

\* C4: a ticket created by POST /tickets (app.py, app_new.py) with header
\* X-User-Id = U is stored with user_id = U, the default user being used only
\* without the header, and GET /tickets/{id} with the same header then
\* answers 200 with it.
C4_StoredUnderRequester ==
    (resp.op = "create" /\ resp.status = 200 /\ variant \in {"app", "app_new"}) =>
        /\ tickets[RowIndex(tickets, resp.ticket.id)].user_id = Requester(resp.hdr)
        /\ GetTicketResp(variant, tickets, resp.hdr, resp.ticket.id).status = 200

\* C7 as claimed: the listing of user U holds exactly U's tickets, each
\* strictly later in created_at than the one after it, the most recently
\* created first.
C7_StrictlyDescending ==
    (resp.op = "list" /\ variant \in {"app", "chalice"}) =>
        LET l == resp.tickets
        IN  /\ Range(l) = {r \in Range(tickets) : r.user_id = Requester(resp.hdr)}
            /\ Len(l) = Cardinality(Range(l))
            /\ \A i, j \in 1..Len(l) : i < j =>
                  /\ TextLT(l[j].created_at, l[i].created_at)
                  /\ RowIndex(tickets, l[i].id) > RowIndex(tickets, l[j].id)

\* C7: the listing of user U (get_my_tickets of app.py, list_by_user of
\* chalicelib/db.py) holds exactly U's tickets, once each, no ticket before
\* one with a later created_at; of two tickets with different created_at the
\* one created later comes first; it is the empty list when U has none.
C7_ListedNewestFirst ==
    (resp.op = "list" /\ variant \in {"app", "chalice"}) =>
        LET l == resp.tickets
        IN  /\ Range(l) = {r \in Range(tickets) : r.user_id = Requester(resp.hdr)}
            /\ Len(l) = Cardinality(Range(l))
            /\ \A i, j \in 1..Len(l) : i < j =>
                  /\ ~TextLT(l[i].created_at, l[j].created_at)
                  /\ l[i].created_at # l[j].created_at =>
                        RowIndex(tickets, l[i].id) > RowIndex(tickets, l[j].id)

C7_Witness ==
    /\ resp.op = "list" /\ variant = "chalice"
    /\ Len(resp.tickets) = 2
    /\ resp.tickets[1].created_at # resp.tickets[2].created_at

\* The number of rows of tk owned by user whose status is in statuses.
Owned(tk, user, statuses) ==
    Cardinality({i \in 1..Len(tk) :
                   tk[i].user_id = user /\ tk[i].status \in statuses})

\* C5: the metrics that get_dashboard_metrics (app.py, simple_app.py) and
\* get_metrics (chalicelib/db.py) report for a user are: total, the number of
\* that user's tickets; open, the number of them whose status is open or
\* in_progress; resolved, the number of them whose status is resolved or
\* closed (so one ticket of each status gives total 4, open 2, resolved 2).
C5_MetricsClassification ==
    (resp.op = "metrics" /\ variant \in {"app", "simple_app", "chalice"}) =>
        LET u == Requester(resp.hdr)
        IN  /\ resp.metrics.total = Owned(tickets, u, Statuses)
            /\ resp.metrics.open = Owned(tickets, u, {"open", "in_progress"})
            /\ resp.metrics.resolved =
                   Owned(tickets, u, {"resolved", "closed"})

\* The total a metrics response reports.
ReportedTotal(r) ==
    IF "total" \in DOMAIN r.metrics THEN r.metrics.total
    ELSE r.metrics.total_tickets

\* C6: GET /dashboard/metrics (app.py, app_new.py) and get_metrics
\* (chalicelib/db.py) asked by user U report a total that counts the tickets
\* whose user_id is U and no ticket of any other user.
C6_MetricsScopedToRequester ==
    (resp.op = "metrics" /\ variant \in {"app", "app_new", "chalice"}) =>
        ReportedTotal(resp) = Owned(tickets, Requester(resp.hdr), Statuses)

\* C8: a blob store upload of a text that decodes to exactly MAX_FILE_SIZE
\* bytes succeeds (plain file name, storage service not failing); one that
\* decodes to MAX_FILE_SIZE + 1 bytes fails, and neither the disk nor the
\* bucket ever holds a blob larger than MAX_FILE_SIZE.
C8_SizeBoundary ==
    /\ \A f \in disk : f.data.size <= MAX_FILE_SIZE
    /\ \A o \in bucket : o.data.size <= MAX_FILE_SIZE
    /\ resp.op = "upload" =>
          /\ (/\ resp.data.ok
              /\ resp.data.bytes.size = MAX_FILE_SIZE
              /\ Len(resp.name) = 1
              /\ ~resp.putFails
              /\ ~resp.ioFails) => resp.ok
          /\ (resp.data.ok /\ resp.data.bytes.size = MAX_FILE_SIZE + 1) =>
                 ~resp.ok

\* C9: on the local backend, a store that succeeds leaves at the location its
\* URL names exactly the bytes stored, and no later store changes or removes
\* what an earlier one left on the disk.
C9_BlobRoundTrip ==
    [][/\ (resp'.op = "upload" /\ resp'.ok /\ resp'.url.where # "s3") =>
              ReadUrl(dirs', disk', resp'.url) = resp'.data.bytes
       /\ \A f \in disk : \E g \in disk' : g = f]_vars

\* The required fields that body b lacks: key missing, null or "".
Lacking(b) ==
    {f \in Range(REQUIRED_FIELDS) : b[f].t \in {"absent", "null"} \/ b[f] = JStr("")}

CaseVariants ==
    {<<"low", "low">>, <<"medium", "medium">>, <<"high", "high">>,
     <<"HIGH", "high">>, <<"Medium", "medium">>}

\* C11: parse_ticket_payload, given a body with the four required fields,
\* accepts a priority that is low, medium or high in any letter case (the body
\* having no attachment) and returns it in lower case, and rejects any other
\* priority with the invalid-priority validation error.
C11_PriorityLowercased ==
    (resp.op = "parse" /\ Lacking(body) = {}) =>
        /\ \A cv \in CaseVariants :
              (body.priority.v = cv[1] /\ ~Truthy(body.attachment)) =>
                  resp.ok /\ resp.payload.priority = cv[2]
        /\ (\A cv \in CaseVariants : body.priority.v # cv[1]) =>
              /\ ~resp.ok
              /\ resp.status = 400
              /\ resp.error = "Invalid priority"

C11_Witness ==
    /\ resp.op = "parse"
    /\ body.priority = JStr("Medium")
    /\ body.attachment = JAbsent
    /\ resp.ok
    /\ resp.payload.priority = "medium"

\* The priorities a variant's POST /tickets is to accept.
AllowedPriorities(v) ==
    IF v = "app" THEN {"low", "medium", "high", "P1"}
    ELSE {"low", "medium", "high"}

\* A request or row whose texts are non-empty and whose priority is allowed.
WellFormed(v, r) ==
    /\ r.subject # ""
    /\ r.category # ""
    /\ r.description # ""
    /\ r.priority \in AllowedPriorities(v)

\* C12: under app.py, app_new.py and simple_app.py every persisted ticket row
\* has non-empty subject, category and description and an allowed priority,
\* and a POST /tickets whose request is not so is answered 400 with no ticket.
C12_OnlyValidRowsPersisted ==
    variant \in {"app", "app_new", "simple_app"} =>
        /\ \A i \in 1..Len(tickets) : WellFormed(variant, tickets[i])
        /\ (resp.op = "create" /\ ~WellFormed(variant, resp.req)) =>
              resp.status = 400 /\ resp.ticket = None

\* The request r carries an attachment and a name for it.
Wants(r) == r.attachment # None /\ r.attachment_name # None

\* The attachment of request r cannot be stored for a reason in the request:
\* its text does not decode, or it decodes to more than MAX_FILE_SIZE bytes.
Unstorable(r) ==
    Wants(r) /\ (~r.attachment.ok \/ r.attachment.bytes.size > MAX_FILE_SIZE)

\* The attachment of the annotated response's request was to be written to
\* the local disk (no storage service, or the service failing) and the disk failed.
DiskFailed(r) ==
    /\ Wants(r.req)
    /\ ~Unstorable(r.req)
    /\ r.ioFails
    /\ (~remote \/ r.putFails)

\* C13: POST /tickets of app.py with an attachment and no attachment_name
\* (the database not failing) is answered 400 and creates no ticket.
C13_AttachmentNeedsName ==
    (/\ resp.op = "create"
     /\ variant = "app"
     /\ resp.req.attachment # None
     /\ resp.req.attachment_name = None
     /\ resp.dbFail = "none") =>
        /\ resp.status = 400
        /\ resp.ticket = None
        /\ Len(tickets) = resp.rows

\* C14: when storing the attachment fails during POST /tickets of app.py or
\* app_new.py, the response is an error and no ticket row is created.
C14_FailedUploadSurfaces ==
    (/\ resp.op = "create"
     /\ variant \in {"app", "app_new"}
     /\ (Unstorable(resp.req) \/ DiskFailed(resp))) =>
        /\ resp.status >= 400
        /\ resp.ticket = None
        /\ Len(tickets) = resp.rows

\* The acknowledgment text of a variant.
AutoReply(v) == IF v = "chalice" THEN CHALICE_AUTO_REPLY ELSE APP_AUTO_REPLY

\* C18: under app.py and chalicelib every comment is the fixed acknowledgment
\* authored by the support-team sentinel; a seeding call adds exactly one
\* comment, for the given ticket; and a ticket that POST /tickets of app.py
\* has created has exactly one comment.
C18_AutoReplySeeded ==
    variant \in {"app", "chalice"} =>
        /\ \A i \in 1..Len(comments) :
              /\ comments[i].comment = AutoReply(variant)
              /\ comments[i].user_id = SUPPORT_TEAM
        /\ resp.op = "seed" =>
              /\ Len(comments) = resp.comments + 1
              /\ comments[Len(comments)].ticket_id = resp.id
        /\ (resp.op = "create" /\ variant = "app" /\ resp.status = 200) =>
              /\ Len(comments) = resp.comments + 1
              /\ Cardinality({i \in 1..Len(comments) :
                    comments[i].ticket_id = resp.ticket.id}) = 1

\* C20: app.py answers 400 to a request that fails validation or whose
\* attachment does not decode or is too large, 404 to a GET of a ticket that
\* is missing or another user's, and 500 to a request that fails in the
\* database or in writing the attachment to the local disk.
C20_ErrorClasses ==
    variant = "app" =>
        /\ resp.op = "create" =>
              /\ ~WellFormed("app", resp.req) => resp.status = 400
              /\ (WellFormed("app", resp.req) /\ Unstorable(resp.req)) =>
                    resp.status = 400
              /\ (WellFormed("app", resp.req) /\ DiskFailed(resp)) =>
                    resp.status = 500
              /\ (/\ WellFormed("app", resp.req)
                  /\ ~Unstorable(resp.req)
                  /\ resp.dbFail \in {"ticket", "comment"}) =>
                    resp.status = 500
        /\ resp.op = "get" =>
              ((\A i \in 1..Len(tickets) :
                    tickets[i].id = resp.id =>
                        tickets[i].user_id # Requester(resp.hdr))
                 => resp.status = 404)

\* C17: a repository call made while a network database is configured and
\* unreachable fails with the connection error, and runs on no database.
C17_ConnectionErrorPropagates ==
    (resp.op = "connect" /\ body.network /\ ~body.reachable) =>
        /\ ~resp.ok
        /\ resp.error = "OperationalError"
        /\ resp.db # "sqlite"

\* C19: with DEBUG off, no 500 response of app.py or simple_app.py, from an
\* endpoint or from the application's exception handler, carries the text of
\* the exception in its message or its detail.
C19_NoDetailUnlessDebug ==
    (resp.op = "error" /\ resp.status = 500 /\ ~body.debug) =>
        /\ body.exc \notin Range(resp.message)
        /\ body.exc \notin Range(resp.detail)

\* An upload of shared.py's StorageManager with the storage service
\* configured and its put_object failing, of a text that decodes to at most
\* MAX_FILE_SIZE bytes.
FellBack ==
    /\ resp.op = "upload"
    /\ variant = "app"
    /\ remote
    /\ resp.putFails
    /\ resp.data.ok
    /\ resp.data.bytes.size <= MAX_FILE_SIZE

\* The key that the last upload generated.
LastKey == <<Tokened(nextId - 1, Head(resp.name))>> \o Tail(resp.name)

UploadRoot(v) == IF v = "chalice" THEN LocalRoot ELSE UploadFolder

\* Path p lies under directory d.
Inside(p, d) == Len(p) > Len(d) /\ SubSeq(p, 1, Len(d)) = d

\* The segments of a key that come from the client's file name: all but the
\* "tickets" folder that chalicelib prepends.
ClientPart(v, key) == IF v = "chalice" THEN Tail(key) ELSE key

\* C16: no key that an upload generates carries a path separator or a parent
\* segment taken from the file name (the client's part of the key is one
\* segment), and every file written lies inside the upload root.
C16_KeysSanitized ==
    /\ \A f \in disk : Inside(f.path, UploadRoot(variant))
    /\ \A o \in bucket : Len(ClientPart(variant, o.key)) = 1
    /\ (resp.op = "upload" /\ resp.ok) =>
          Len(ClientPart(variant, resp.url.key)) = 1

\* The rows of tk that equal row r in subject, priority, category, description
\* and user.
Identical(tk, r) ==
    {i \in 1..Len(tk) :
        /\ tk[i].subject = r.subject
        /\ tk[i].priority = r.priority
        /\ tk[i].category = r.category
        /\ tk[i].description = r.description
        /\ tk[i].user_id = r.user_id}

\* C21: every successful create_ticket (app.py, chalicelib/db.py) appends
\* exactly one row to tickets, leaves the rows already there as they were, and
\* gives the new row an id that no stored row has, also when rows with the
\* same subject, priority, category, description and user are stored already.
C21_NoDuplicateDetection ==
    [][(/\ resp'.op = "create"
        /\ resp'.ticket # None
        /\ variant \in {"app", "chalice"}) =>
          /\ Len(tickets') = Len(tickets) + 1
          /\ SubSeq(tickets', 1, Len(tickets)) = tickets
          /\ tickets'[Len(tickets')].id = resp'.ticket.id
          /\ \A i \in 1..Len(tickets) : tickets[i].id # resp'.ticket.id
          /\ Cardinality(Identical(tickets', resp'.ticket)) =
                Cardinality(Identical(tickets, resp'.ticket)) + 1]_vars

C21_Witness ==
    /\ resp.op = "create"
    /\ resp.ticket # None
    /\ variant = "chalice"
    /\ Len(tickets) = 2
    /\ Identical(tickets, resp.ticket) = {1, 2}
    /\ tickets[1].id # tickets[2].id
    /\ tickets[1].created_at = tickets[2].created_at

\* C22: whenever no store operation is in progress, the database object has
\* no connection open: the constructor's bootstrap and every repository
\* method close the connection they opened, whether they return or raise.
C22_ConnectionsReleased == store.conns = 0

\* C23: the placeholder of the database object is the one of the backend
\* fixed at construction, and every statement run on a connection is written
\* with the placeholder of that connection's database: "?" on SQLite, "%s"
\* on PostgreSQL.
C23_PlaceholderMatchesBackend ==
    /\ (store.built /\ variant = "chalice") =>
          store.placeholder = IF store.network THEN "%s" ELSE "?"
    /\ (resp.op = "store" /\ resp.executed) =>
          resp.placeholder = DriverStyle(resp.db)

\* The database that the configuration of variant v selects.
Selected(v, s) ==
    IF s.network /\ v # "simple_app" THEN "postgresql" ELSE "sqlite"

\* C24: when the database object has been constructed (its database being
\* reachable), the tables tickets, ticket_files and comments exist in the
\* database that the configuration selects; and a construction leaves every
\* stored row, and the tables of a database that had all three, unchanged.
C24_BootstrapCompleteAndIdempotent ==
    [][(resp'.op = "construct" /\ (store'.network => resp'.reachable)) =>
          /\ AllTables \subseteq store'.tables[Selected(variant, store')]
          /\ <<tickets', ticket_files', comments'>> =
                <<tickets, ticket_files, comments>>
          /\ \A db \in {"sqlite", "postgresql"} :
                AllTables \subseteq store.tables[db] =>
                    store'.tables[db] = store.tables[db]]_vars

C26_RowsWriteOnce ==
    [][/\ Len(tickets') >= Len(tickets)
       /\ SubSeq(tickets', 1, Len(tickets)) = tickets
       /\ Len(ticket_files') >= Len(ticket_files)
       /\ SubSeq(ticket_files', 1, Len(ticket_files)) = ticket_files
       /\ Len(comments') >= Len(comments)
       /\ SubSeq(comments', 1, Len(comments)) = comments
       /\ resp'.op \in {"list", "get", "comments", "metrics"} =>
             /\ <<tickets', ticket_files', comments'>> =
                   <<tickets, ticket_files, comments>>
             /\ <<dirs', disk', bucket'>> = <<dirs, disk, bucket>>]_vars

C26_Witness ==
    /\ resp.op = "comments"
    /\ Len(resp.comments) = 1
    /\ Len(tickets) = 2
    /\ Len(ticket_files) = 1
    /\ Len(comments) = 2
    /\ disk # {}

\* The positions of the rows of table tb that reference ticket id.
RowsOf(tb, id) == {i \in 1..Len(tb) : tb[i].ticket_id = id}

\* C27: under app.py, after any sequence of POST /tickets calls, calls that
\* failed part-way included, every ticket_files row references the id of
\* exactly one stored ticket and every comments row references the id of a
\* stored ticket.
C27_ReferentialIntegrity ==
    variant = "app" =>
        /\ \A i \in 1..Len(ticket_files) :
              Cardinality({k \in 1..Len(tickets) :
                 tickets[k].id = ticket_files[i].ticket_id}) = 1
        /\ \A i \in 1..Len(comments) :
              \E k \in 1..Len(tickets) : tickets[k].id = comments[i].ticket_id

C27_Witness ==
    /\ variant = "app"
    /\ resp.op = "create"
    /\ resp.status = 500
    /\ resp.dbFail = "comment"
    /\ Len(tickets) = 2
    /\ Len(ticket_files) = 1
    /\ Len(comments) = 1
    /\ ticket_files[1].ticket_id = tickets[2].id

\* C28: POST /tickets of app.py that answers an error has added no row to
\* tickets, ticket_files or comments and no file or object to the blob store;
\* one that answers 200 has added the ticket row, the auto-reply comment and,
\* when an attachment was stored, the ticket_files row.
C28_AllOrNothing ==
    [][(resp'.op = "create" /\ variant = "app") =>
          /\ resp'.status >= 400 =>
                /\ <<tickets', ticket_files', comments'>> =
                      <<tickets, ticket_files, comments>>
                /\ <<disk', bucket'>> = <<disk, bucket>>
          /\ resp'.status = 200 =>
                /\ Len(tickets') = Len(tickets) + 1
                /\ tickets'[Len(tickets')].id = resp'.ticket.id
                /\ Cardinality(RowsOf(comments', resp'.ticket.id)) = 1
                /\ resp'.ticket.attachment_url # None =>
                      Cardinality(RowsOf(ticket_files', resp'.ticket.id)) = 1]_vars

\* C29: under app.py, a ticket that a successful POST /tickets has created
\* (it has its auto-reply comment) has a non-null attachment_url exactly when
\* it has exactly one ticket_files row; a ticket_files row of it carries the
\* ticket's attachment_url as file_url; and at the response the row's
\* file_name is the attachment_name of the request and the ticket returned
\* is the ticket stored.
C29_FileRowMatchesAttachment ==
    variant = "app" =>
        /\ \A i \in 1..Len(tickets) :
              RowsOf(comments, tickets[i].id) # {} =>
                 /\ tickets[i].attachment_url # None <=>
                       Cardinality(RowsOf(ticket_files, tickets[i].id)) = 1
                 /\ tickets[i].attachment_url = None =>
                       RowsOf(ticket_files, tickets[i].id) = {}
                 /\ \A j \in RowsOf(ticket_files, tickets[i].id) :
                       ticket_files[j].file_url = tickets[i].attachment_url
        /\ (resp.op = "create" /\ resp.status = 200) =>
              /\ tickets[RowIndex(tickets, resp.ticket.id)].attachment_url =
                    resp.ticket.attachment_url
              /\ \A j \in RowsOf(ticket_files, resp.ticket.id) :
                    ticket_files[j].file_name = resp.req.attachment_name

C29_Witness ==
    /\ variant = "app"
    /\ resp.op = "create"
    /\ resp.status = 200
    /\ resp.ticket.attachment_url # None
    /\ Len(tickets) = 2
    /\ tickets[1].attachment_url = None
    /\ RowsOf(ticket_files, resp.ticket.id) = {1}
    /\ RowsOf(comments, tickets[1].id) # {}

\* C30: every metrics result of get_dashboard_metrics (app.py) and get_metrics
\* (chalicelib/db.py) has open + resolved <= total, also when tickets are
\* created by other requests while it is computed.
C30_MetricsConsistent ==
    (resp.op = "metrics" /\ variant \in {"app", "chalice"}) =>
        resp.metrics.open + resp.metrics.resolved <= resp.metrics.total

====
